---- MODULE Spec2Model ----
(***************************************************************************)
(* sortud: recursive disk-usage walk (walk), its renderer (print_results)  *)
(* and the size formatter (format_size) of src/src/lib.rs.                 *)
(*                                                                         *)
(* The filesystem is the input.  It is revealed entry by entry while the   *)
(* walk runs: every call of walk on a path draws that path's metadata from *)
(* a small set and records it in fs, and every directory iterator yields   *)
(* some number of entries before it ends.  A path is the sequence of       *)
(* enumeration indices that leads to it from the walk root (<<>>), so the  *)
(* last component of a child's path is its position in read_dir's order.   *)
(***************************************************************************)
EXTENDS Integers, Sequences, FiniteSets, TLC

VARIABLES
    fs,              \* path -> metadata the filesystem answers for that path
    stack,           \* the active walk calls that iterate a directory
    all_file_info,   \* list_files' result vector
    pc,              \* "start" | "walking" | "walked" | "printed" | "panic" | "fmt" | "fmtdone"
    sort_ascending,  \* cli.ascending
    skip_symlinks,   \* cli.skip_symlinks
    max_depth,       \* cli.max_depth, Option<u8>
    cli_humanize,    \* cli.humanize
    cli_si,          \* cli.si
    cli_time,        \* cli.time
    out,             \* the lines println! has written
    fmt_in,          \* format_size's arguments (formatter specification)
    fmt_out          \* format_size's result    (formatter specification)

\* the options the renderer reads; they are drawn when print_results is called
render_opts == <<max_depth, cli_humanize, cli_si, cli_time>>

vars == <<fs, stack, all_file_info, pc, sort_ascending, skip_symlinks,
          render_opts, out, fmt_in, fmt_out>>

-----------------------------------------------------------------------------
(* Bounds of the model *)

\* deepest node depth the walk is let to reach (the root has depth 1)
MaxDepth == 3
\* most entries a directory iterator yields
MaxEntries == 3
\* most paths of the filesystem the walk visits
MaxNodes == 4
\* file lengths are 1 and MaxLen
MaxLen == 2
\* a directory's own metadata length
DirLen == 1
\* modification times are -1 (before the epoch), the epoch and MaxTime
MaxTime == 1

\* time::UNIX_EPOCH
UNIX_EPOCH == 0

Lens == {1, MaxLen}
Times == {UNIX_EPOCH - 1, UNIX_EPOCH, MaxTime}

-----------------------------------------------------------------------------
(* The filesystem's answers *)

\* What the filesystem holds at one path.  kind/len/mtime describe what the
\* path resolves to when links are followed ("none": it cannot be stat'd);
\* symlink says whether the path itself is a symbolic link.
FileMeta == [symlink : BOOLEAN, kind : {"file"}, len : Lens, mtime : Times,
             readable : {TRUE}]
DirMeta  == [symlink : BOOLEAN, kind : {"dir"}, len : {DirLen}, mtime : {UNIX_EPOCH},
             readable : BOOLEAN]
NoneMeta == [symlink : BOOLEAN, kind : {"none"}, len : {0}, mtime : {UNIX_EPOCH},
             readable : {FALSE}]
Meta == FileMeta \cup DirMeta \cup NoneMeta

StatErr == [ok |-> FALSE, is_file |-> FALSE, is_dir |-> FALSE, is_symlink |-> FALSE,
            len |-> 0, mtime |-> UNIX_EPOCH]

\* fs::metadata(path): follows links
metadata(m) ==
    IF m.kind = "none" THEN StatErr
    ELSE [ok |-> TRUE, is_file |-> m.kind = "file", is_dir |-> m.kind = "dir",
          is_symlink |-> FALSE, len |-> m.len, mtime |-> m.mtime]

\* fs::symlink_metadata(path): stats the link itself
symlink_metadata(m) ==
    IF m.symlink
    THEN [ok |-> TRUE, is_file |-> FALSE, is_dir |-> FALSE, is_symlink |-> TRUE,
          len |-> 0, mtime |-> UNIX_EPOCH]
    ELSE metadata(m)

\* fs::read_dir(path) is Ok
read_dir_ok(m) == m.readable

-----------------------------------------------------------------------------
(* FileInfo *)

None == [some |-> FALSE, v |-> <<>>]
Some(v) == [some |-> TRUE, v |-> v]

\* get_file_type: classifies the path by its own (non-following) metadata
get_file_type(m) ==
    LET md == symlink_metadata(m) IN
    IF md.is_file THEN "File"
    ELSE IF md.is_dir THEN "Dir"
    ELSE "Symlink"

\* the file type of a node: sticky once a symlink has been crossed
ItemTypeOf(m, parent_is_symlink) ==
    IF parent_is_symlink THEN "Symlink" ELSE get_file_type(m)

\* variant: a file node that carries an empty children sequence
get_file_info_empty_children(path, depth, md, m, parent_is_symlink) ==
    [path |-> path, depth |-> depth, file_type |-> ItemTypeOf(m, parent_is_symlink),
     size |-> md.len, modified |-> md.mtime, children |-> Some(<<>>), accessible |-> TRUE]

\* get_file_info
get_file_info(path, depth, md, m, parent_is_symlink) ==
    [path |-> path, depth |-> depth, file_type |-> ItemTypeOf(m, parent_is_symlink),
     size |-> md.len, modified |-> md.mtime, children |-> None, accessible |-> TRUE]

\* walk, line 275: the metadata lookup the option selects
Lookup(m, skip) == IF skip THEN symlink_metadata(m) ELSE metadata(m)

\* variant: the caller's flag is dropped, only the path's own link counts
IsUnderSymlinkOwnOnly(parent_is_symlink, m) == symlink_metadata(m).is_symlink

\* walk, line 289: _parent_is_symlink
IsUnderSymlink(parent_is_symlink, m) ==
    parent_is_symlink \/ symlink_metadata(m).is_symlink

\* walk, line 323: the depth handed to the recursive call
ChildDepth(depth) == depth + 1

-----------------------------------------------------------------------------
(* Sorting: Vec::sort_by is a stable sort *)

\* the comparator of line 345 (ascending) or 347 (descending): TRUE when a
\* orders strictly before b
Before(a, b, asc) == IF asc THEN a.size < b.size ELSE b.size < a.size

\* x goes in front of the first element it orders strictly before
RECURSIVE InsertSorted(_, _, _)
InsertSorted(s, x, asc) ==
    IF s = <<>> THEN <<x>>
    ELSE IF Before(x, Head(s), asc) THEN <<x>> \o s
    ELSE <<Head(s)>> \o InsertSorted(Tail(s), x, asc)

RECURSIVE SortFrom(_, _, _)
SortFrom(done, rest, asc) ==
    IF rest = <<>> THEN done
    ELSE SortFrom(InsertSorted(done, Head(rest), asc), Tail(rest), asc)

Reverse(s) == [i \in 1..Len(s) |-> s[Len(s) + 1 - i]]

\* variant: descending order obtained by reversing the ascending sort
SortDirInfoByReversal(v, asc) ==
    IF asc THEN SortFrom(<<>>, v, TRUE) ELSE Reverse(SortFrom(<<>>, v, TRUE))

\* walk, lines 344-348
SortDirInfo(v, asc) == SortFrom(<<>>, v, asc)

-----------------------------------------------------------------------------
(* walk *)

\* Vec::insert(idx, x)
InsertAt(v, idx, x) == SubSeq(v, 1, idx) \o <<x>> \o SubSeq(v, idx + 1, Len(v))

\* variant: the directory's own length is left out
DirTotalWithoutOwn(total_size, len) == total_size

\* walk, line 342
DirTotal(total_size, len) == total_size + len

\* variant: the last child's time replaces the running maximum
MostRecentLast(most_recent, modified) == modified

\* walk, lines 333-335
MostRecent(most_recent, modified) ==
    IF modified > most_recent THEN modified ELSE most_recent

\* walk, lines 350-358: the node of a directory whose loop has ended (or whose
\* read_dir failed)
DirNode(path, depth, ft, total_size, most_recent, dir_info, accessible, len) ==
    [path |-> path, depth |-> depth, file_type |-> ft,
     size |-> DirTotal(total_size, len), modified |-> most_recent,
     children |-> Some(SortDirInfo(dir_info, sort_ascending)),
     accessible |-> accessible]

\* the walk enters the directory's loop: the lookup succeeded, it is a
\* directory and read_dir succeeded
Enters(m) ==
    LET md == Lookup(m, skip_symlinks) IN md.ok /\ md.is_dir /\ read_dir_ok(m)

\* walk on a path whose call does not iterate a directory: the vector the
\* caller gets back
WalkFlat(path, depth, m, parent_is_symlink, vec) ==
    LET md == Lookup(m, skip_symlinks)
        pis == IsUnderSymlink(parent_is_symlink, m)
    IN  IF ~md.ok THEN vec
        ELSE IF md.is_file
             THEN Append(vec, get_file_info(path, depth, md, m, pis))
        ELSE IF md.is_dir
             THEN InsertAt(vec, Len(vec),
                           DirNode(path, depth, ItemTypeOf(m, pis), 0, UNIX_EPOCH,
                                   <<>>, FALSE, md.len))
        ELSE vec

\* walk, lines 299-314: the locals of a call that iterates a directory
NewFrame(path, depth, m, parent_is_symlink, vec) ==
    LET md == Lookup(m, skip_symlinks)
        pis == IsUnderSymlink(parent_is_symlink, m)
    IN  [path |-> path, depth |-> depth, pis |-> pis, len |-> md.len,
         ft |-> ItemTypeOf(m, pis), parent_info_idx |-> Len(vec),
         dir_info |-> <<>>, total_size |-> 0, most_recent |-> UNIX_EPOCH, n |-> 0]

\* variant: the loop reads the first element of dir_info, not the last
AccumulateFirst(f, vec) ==
    LET summarised_fi == vec[1] IN
    [f EXCEPT !.dir_info = vec,
              !.total_size = @ + summarised_fi.size,
              !.most_recent = MostRecent(@, summarised_fi.modified)]

\* walk, lines 330-335, after the recursive call has returned with dir_info
\* = vec; dir_info.last().unwrap() panics on an empty vector
Accumulate(f, vec) ==
    LET summarised_fi == vec[Len(vec)] IN
    [f EXCEPT !.dir_info = vec,
              !.total_size = @ + summarised_fi.size,
              !.most_recent = MostRecent(@, summarised_fi.modified)]

Top == stack[Len(stack)]
Pop(s) == SubSeq(s, 1, Len(s) - 1)
SetTop(s, f) == [s EXCEPT ![Len(s)] = f]

FmtIdle == <<>>

Init ==
    /\ fs = <<>>
    /\ stack = <<>>
    /\ all_file_info = <<>>
    /\ pc = "start"
    /\ sort_ascending \in BOOLEAN
    /\ skip_symlinks \in BOOLEAN
    /\ max_depth = None
    /\ cli_humanize = FALSE
    /\ cli_si = FALSE
    /\ cli_time = FALSE
    /\ out = <<>>
    /\ fmt_in = FmtIdle
    /\ fmt_out = FmtIdle

\* list_files, lines 366-376: walk on the root path
WalkRoot ==
    /\ pc = "start"
    /\ \E m \in Meta :
        /\ fs' = (<<>> :> m)
        /\ IF Enters(m)
           THEN /\ stack' = <<NewFrame(<<>>, 1, m, FALSE, all_file_info)>>
                /\ all_file_info' = all_file_info
                /\ pc' = "walking"
           ELSE /\ stack' = stack
                /\ all_file_info' = WalkFlat(<<>>, 1, m, FALSE, all_file_info)
                /\ pc' = "walked"
    /\ UNCHANGED <<sort_ascending, skip_symlinks, render_opts, out, fmt_in, fmt_out>>

\* walk, lines 318-336: the iterator yields one more entry; walk is called on
\* it and, unless that call iterates a directory itself, returns at once
WalkEntry ==
    /\ pc = "walking"
    /\ Top.n < MaxEntries
    /\ Top.depth < MaxDepth
    /\ Cardinality(DOMAIN fs) < MaxNodes
    /\ \E m \in Meta :
        LET f == [Top EXCEPT !.n = @ + 1]
            p == Append(Top.path, Top.n + 1)
        IN  /\ fs' = fs @@ (p :> m)
            /\ IF Enters(m)
               THEN /\ stack' = Append(SetTop(stack, f),
                                       NewFrame(p, ChildDepth(f.depth), m, f.pis, f.dir_info))
                    /\ pc' = pc
               ELSE LET vec == WalkFlat(p, ChildDepth(f.depth), m, f.pis, f.dir_info) IN
                    IF vec = <<>>
                    THEN /\ pc' = "panic"
                         /\ stack' = SetTop(stack, f)
                    ELSE /\ pc' = pc
                         /\ stack' = SetTop(stack, Accumulate(f, vec))
    /\ UNCHANGED <<all_file_info, sort_ascending, skip_symlinks, render_opts, out,
                   fmt_in, fmt_out>>

\* walk, lines 336-362: the iterator of the innermost directory ends; its node
\* is inserted in the caller's vector and the caller's loop body resumes
WalkDirDone ==
    /\ pc = "walking"
    /\ LET f == Top
           node == DirNode(f.path, f.depth, f.ft, f.total_size, f.most_recent,
                           f.dir_info, TRUE, f.len)
       IN  IF Len(stack) = 1
           THEN /\ all_file_info' = InsertAt(all_file_info, f.parent_info_idx, node)
                /\ stack' = <<>>
                /\ pc' = "walked"
           ELSE LET caller == stack[Len(stack) - 1]
                    vec == InsertAt(caller.dir_info, f.parent_info_idx, node)
                IN  /\ stack' = SetTop(Pop(stack), Accumulate(caller, vec))
                    /\ all_file_info' = all_file_info
                    /\ pc' = pc
    /\ UNCHANGED <<fs, sort_ascending, skip_symlinks, render_opts, out, fmt_in, fmt_out>>

-----------------------------------------------------------------------------
(* format_size *)

\* u64 byte counts are written in base div (1000 or 1024), least significant
\* digit first, so that counts up to the u64 range stay within the model's
\* integers: seven digits cover 2^64 in either base.
NumDigits == 7

\* the unit base selected by ByteType
Div(byte_type) == IF byte_type = "Decimal" THEN 1000 ELSE 1024

\* prefixes, lines 179-183 (a Vec of five; Rust indexes it from 0)
Prefixes(byte_type) ==
    <<" ", IF byte_type = "Decimal" THEN "k" ELSE "K", "M", "G", "T">>

RECURSIVE DigitAt(_, _, _)
DigitAt(n, i, base) == IF i = 1 THEN n % base ELSE DigitAt(n \div base, i - 1, base)

\* size as u64 -> the digits of the count
ToDigits(n, base) == [i \in 1..NumDigits |-> DigitAt(n, i, base)]

\* line 190, size_f > div after idx divisions: size / div^idx > div, that is
\* size > div^(idx + 1).  (f64 holds every count below 2^53 exactly and the
\* divisions keep the comparison's outcome at every power of the base up to
\* the fifth; larger counts panic whichever way they round.)
ExceedsDiv(d, idx) ==
    LET k == idx + 2 IN      \* the digit position that weighs div^(idx + 1)
    \/ \E i \in (k + 1)..NumDigits : d[i] # 0
    \/ /\ k <= NumDigits
       /\ \/ d[k] > 1
          \/ d[k] = 1 /\ \E i \in 1..(k - 1) : d[i] # 0

\* lines 189-193: the loop, from idx
RECURSIVE UnitIndex(_, _)
UnitIndex(d, idx) == IF ExceedsDiv(d, idx) THEN UnitIndex(d, idx + 1) ELSE idx

\* format_size: prefixes[idx] panics when idx is past the last prefix (past
\* the fifth power f64 rounding may end the loop one division sooner than exact
\* arithmetic; idx is then still past the last prefix); the value printed is
\* kept to its whole part
format_size(d, byte_type) ==
    LET idx == UnitIndex(d, 0)
        pre == Prefixes(byte_type)
    IN  IF idx >= Len(pre)
        THEN [panic |-> TRUE, idx |-> idx, prefix |-> "", whole |-> 0]
        ELSE [panic |-> FALSE, idx |-> idx, prefix |-> pre[idx + 1],
              whole |-> d[idx + 1] + (IF idx + 2 <= NumDigits
                                      THEN d[idx + 2] * Div(byte_type) ELSE 0)]

-----------------------------------------------------------------------------
(* print_results *)

\* FileInfo::to_string: the line of one node.  The line carries the size
\* field, the timestamp field, the path, the colour class of the node's type
\* (file names, hence the hidden colours, are not part of the model) and, for
\* an inaccessible node, the "Could not access contents" line.
to_string(info, humanize, byte_type, show_ts) ==
    [size  |-> IF humanize
               THEN format_size(ToDigits(info.size, Div(byte_type)), byte_type)
               ELSE [panic |-> FALSE, idx |-> 0, prefix |-> "", whole |-> info.size],
     ts    |-> IF show_ts THEN <<info.modified>> ELSE <<>>,
     path  |-> info.path,
     colour |-> info.file_type,
     no_access |-> ~info.accessible]

\* variant: the depth test is off by one
OverDepthOffByOne(md, depth) == md.some /\ md.v + 1 < depth

\* lines 212-216: the node is deeper than max_depth
OverDepth(md, depth) == md.some /\ md.v < depth

\* lines 211-222, from the i-th element of path_info: `return` leaves this
\* invocation only, the caller's loop goes on
RECURSIVE PrintFrom(_, _, _, _, _, _)
PrintFrom(path_info, i, humanize, byte_type, show_ts, md) ==
    IF i > Len(path_info) THEN <<>>
    ELSE LET info == path_info[i] IN
         IF OverDepth(md, info.depth) THEN <<>>
         ELSE <<to_string(info, humanize, byte_type, show_ts)>>
              \o (IF info.children.some
                  THEN PrintFrom(info.children.v, 1, humanize, byte_type, show_ts, md)
                  ELSE <<>>)
              \o PrintFrom(path_info, i + 1, humanize, byte_type, show_ts, md)

\* a print_results whose `return` ends the whole rendering: [lines, stopped]
RECURSIVE PrintAbortFrom(_, _, _, _, _, _)
PrintAbortFrom(path_info, i, humanize, byte_type, show_ts, md) ==
    IF i > Len(path_info) THEN [lines |-> <<>>, stopped |-> FALSE]
    ELSE LET info == path_info[i] IN
         IF OverDepth(md, info.depth) THEN [lines |-> <<>>, stopped |-> TRUE]
         ELSE LET own == <<to_string(info, humanize, byte_type, show_ts)>>
                  sub == IF info.children.some
                         THEN PrintAbortFrom(info.children.v, 1, humanize, byte_type,
                                             show_ts, md)
                         ELSE [lines |-> <<>>, stopped |-> FALSE]
              IN  IF sub.stopped
                  THEN [lines |-> own \o sub.lines, stopped |-> TRUE]
                  ELSE LET rest == PrintAbortFrom(path_info, i + 1, humanize, byte_type,
                                                  show_ts, md)
                       IN  [lines |-> own \o sub.lines \o rest.lines,
                            stopped |-> rest.stopped]

\* variant: the first over-depth node ends the rendering altogether
print_results_abort(path_info, humanize, si, show_ts, md) ==
    PrintAbortFrom(path_info, 1, humanize, IF si THEN "Decimal" ELSE "Binary",
                   show_ts, md).lines

\* print_results
print_results(path_info, humanize, si, show_ts, md) ==
    PrintFrom(path_info, 1, humanize, IF si THEN "Decimal" ELSE "Binary", show_ts, md)

\* the values of cli.max_depth the model draws
MaxDepths == {None} \cup {Some(d) : d \in 0..MaxDepth}

\* list_files, lines 378-384
PrintResults ==
    /\ pc = "walked"
    /\ max_depth' \in MaxDepths
    /\ cli_humanize' \in BOOLEAN
    /\ cli_si' \in BOOLEAN
    /\ cli_time' \in BOOLEAN
    /\ out' = print_results(all_file_info, cli_humanize', cli_si', cli_time', max_depth')
    /\ pc' = IF \E i \in 1..Len(out') : out'[i].size.panic
             THEN "panic" ELSE "printed"
    /\ UNCHANGED <<fs, stack, all_file_info, sort_ascending, skip_symlinks,
                   fmt_in, fmt_out>>

\* list_files: the walk, then the rendering
Next == WalkRoot \/ WalkEntry \/ WalkDirDone \/ PrintResults

Spec == Init /\ [][Next]_vars

\* the walk alone (list_files up to line 376)
NextWalk == WalkRoot \/ WalkEntry \/ WalkDirDone

SpecWalk == Init /\ [][NextWalk]_vars

-----------------------------------------------------------------------------
(* The formatter on its own: every byte count of the sample, both unit bases *)

\* digits drawn for a count: the least, the first above it, and the greatest
DigitSamples(base) == {0, 1, base - 1}

FmtInputs ==
    UNION {[byte_type : {bt},
            d : {d \in [1..NumDigits -> DigitSamples(Div(bt))] : d[NumDigits] <= 1}]
           : bt \in {"Binary", "Decimal"}}

InitFmt ==
    /\ fs = <<>>
    /\ stack = <<>>
    /\ all_file_info = <<>>
    /\ pc = "fmt"
    /\ sort_ascending = FALSE
    /\ skip_symlinks = FALSE
    /\ max_depth = None
    /\ cli_humanize = FALSE
    /\ cli_si = FALSE
    /\ cli_time = FALSE
    /\ out = <<>>
    /\ fmt_in \in FmtInputs
    /\ fmt_out = FmtIdle

FormatSize ==
    /\ pc = "fmt"
    /\ fmt_out' = format_size(fmt_in.d, fmt_in.byte_type)
    /\ pc' = "fmtdone"
    /\ UNCHANGED <<fs, stack, all_file_info, sort_ascending, skip_symlinks,
                   render_opts, out, fmt_in>>

NextFmt == FormatSize

SpecFmt == InitFmt /\ [][NextFmt]_vars

-----------------------------------------------------------------------------
(* What the walk has produced, and what the filesystem says *)

RECURSIVE Subtree(_)
\* a node and every node beneath it
Subtree(n) ==
    {n} \cup (IF n.children.some
              THEN UNION {Subtree(n.children.v[i]) : i \in 1..Len(n.children.v)}
              ELSE {})

NodesOf(v) == UNION {Subtree(v[i]) : i \in 1..Len(v)}

\* every node a call of walk has pushed or inserted so far
Produced ==
    NodesOf(all_file_info) \cup UNION {NodesOf(stack[k].dir_info) : k \in 1..Len(stack)}

\* the nodes that have a children sequence
ProducedDirs == {n \in Produced : n.children.some}

Children(n) == {n.children.v[i] : i \in 1..Len(n.children.v)}

RECURSIVE SumSizes(_)
SumSizes(v) == IF v = <<>> THEN 0 ELSE Head(v).size + SumSizes(Tail(v))

SetMax(S) == CHOOSE x \in S : \A y \in S : y <= x

\* the entries read_dir yielded for the directory at path p
Entries(p) ==
    {q \in DOMAIN fs : Len(q) = Len(p) + 1 /\ SubSeq(q, 1, Len(p)) = p}

\* the entry is one walk builds a node for: the lookup the option selects
\* succeeds and says file or directory
StatableFileOrDir(q) ==
    IF skip_symlinks
    THEN ~fs[q].symlink /\ fs[q].kind \in {"file", "dir"}
    ELSE fs[q].kind \in {"file", "dir"}

\* some component of the path, the path itself included, is a symbolic link
CrossedSymlink(p) == \E k \in 0..Len(p) : fs[SubSeq(p, 1, k)].symlink

-----------------------------------------------------------------------------
(* C1 *)

\* C1: a directory node all of whose entries were built into child nodes has
\* size = the directory's own metadata length + the sum of its children's
\* sizes.
C1_DirSizeIsOwnPlusChildren ==
    \A D \in ProducedDirs :
        (\A q \in Entries(D.path) : StatableFileOrDir(q))
            => D.size = fs[D.path].len + SumSizes(D.children.v)

\* the spec's scenario: a root whose subdirectory holds a file, every entry built
C1_Witness ==
    \E D \in ProducedDirs :
        /\ D.path = <<>>
        /\ \A q \in Entries(D.path) : StatableFileOrDir(q)
        /\ \E c \in Children(D) :
              /\ c.children.some
              /\ \E g \in Children(c) : ~g.children.some /\ g.size = MaxLen
              /\ D.size = DirLen + c.size

-----------------------------------------------------------------------------
(* C2 *)

\* C2: an entry for which walk produces no node is silently omitted: nothing
\* aborts, the parent's children are exactly the built entries, and the
\* parent's size and modified time come from the built entries alone.
C2_OmittedEntryContributesNothing ==
    /\ pc # "panic"
    /\ \A D \in ProducedDirs :
          D.accessible =>
            /\ {c.path : c \in Children(D)}
                  = {q \in Entries(D.path) : StatableFileOrDir(q)}
            /\ D.size = fs[D.path].len + SumSizes(D.children.v)
            /\ D.modified = SetMax({UNIX_EPOCH} \cup {c.modified : c \in Children(D)})

-----------------------------------------------------------------------------
(* C3 *)

\* C3: the children of every directory node are ordered by size in the
\* requested direction, and children of equal size keep their enumeration
\* order.
C3_ChildrenSortedStable ==
    \A D \in ProducedDirs :
        LET c == D.children.v IN
        \A i \in 1..Len(c) : \A j \in (i + 1)..Len(c) :
            /\ IF sort_ascending THEN c[i].size <= c[j].size
                                 ELSE c[i].size >= c[j].size
            /\ c[i].size = c[j].size
                  => c[i].path[Len(c[i].path)] < c[j].path[Len(c[j].path)]

\* descending order, three children, the two that tie were enumerated around
\* a larger one
C3_Witness ==
    /\ ~sort_ascending
    /\ \E D \in ProducedDirs :
          LET c == D.children.v IN
          /\ Len(c) = 3
          /\ c[1].size > c[2].size
          /\ c[2].size = c[3].size
          /\ c[1].path[Len(c[1].path)] = 2

-----------------------------------------------------------------------------
(* C4 *)

-----------------------------------------------------------------------------
(* C6 *)

\* the paths the renderer emits a line for when no depth bound is set
RenderedPaths ==
    LET lines == print_results(all_file_info, FALSE, FALSE, FALSE, None) IN
    {lines[i].path : i \in 1..Len(lines)}

\* C6 as stated: a File or Symlink node never has children, only Dir nodes do,
\* and the renderer emits no line beneath a File or Symlink node.
C6_OnlyDirKindHasChildren ==
    /\ \A n \in Produced : n.children.some <=> n.file_type = "Dir"
    /\ pc = "walked" =>
          \A n \in NodesOf(all_file_info) :
              n.file_type \in {"File", "Symlink"}
                => ~\E q \in RenderedPaths :
                      Len(q) > Len(n.path) /\ SubSeq(q, 1, Len(n.path)) = n.path

\* C6 amended: a node has a children sequence exactly when its path resolves
\* to a directory; such a node has kind Dir, or kind Symlink when it was
\* reached through a symbolic link; a File node never has children; and the
\* renderer recurses exactly into the nodes that have a children sequence.
C6_ChildrenIffDirectory ==
    /\ \A n \in Produced :
          /\ n.children.some <=> fs[n.path].kind = "dir"
          /\ n.file_type = "File" => ~n.children.some
          /\ n.children.some =>
                n.file_type = (IF CrossedSymlink(n.path) THEN "Symlink" ELSE "Dir")
    /\ pc = "walked" => RenderedPaths = {n.path : n \in NodesOf(all_file_info)}

\* a directory reached through a symbolic link: kind Symlink, with a child
C6_Witness ==
    /\ pc = "walked"
    /\ \E n \in NodesOf(all_file_info) :
          /\ n.file_type = "Symlink"
          /\ n.children.some
          /\ \E c \in Children(n) : ~c.children.some /\ c.file_type = "Symlink"
    /\ \E n \in NodesOf(all_file_info) : n.file_type = "File"

-----------------------------------------------------------------------------
(* C7 *)

\* the step is walk called on a stat-able directory whose read_dir fails, from
\* the loop of the directory on top of the stack
UnreadableDirStep(p) ==
    /\ pc = "walking"
    /\ p \notin DOMAIN fs
    /\ p \in DOMAIN fs'
    /\ Len(p) > 0
    /\ StatableFileOrDir(p)'
    /\ fs'[p].kind = "dir"
    /\ ~fs'[p].readable

C7_Nodes ==
    /\ \A n \in Produced :
          /\ ~n.accessible =>
                /\ n.children = Some(<<>>)
                /\ n.size = fs[n.path].len
                /\ fs[n.path].kind = "dir" /\ ~fs[n.path].readable
          /\ ~n.children.some => n.accessible
    /\ pc # "panic" =>
          \A p \in DOMAIN fs :
              (StatableFileOrDir(p) /\ fs[p].kind = "dir" /\ ~fs[p].readable)
                => \E n \in Produced : n.path = p /\ ~n.accessible

C7_Step ==
    \A p \in DOMAIN fs' :
        UnreadableDirStep(p) =>
            /\ pc' = "walking"
            /\ Len(stack') = Len(stack)
            /\ stack'[Len(stack')].total_size = stack[Len(stack)].total_size + fs'[p].len
            /\ \E n \in NodesOf(stack'[Len(stack')].dir_info) : n.path = p /\ ~n.accessible

\* C7: a stat-able directory whose enumeration fails still gets a node, with
\* accessible = false, no children and size = its own metadata length; nothing
\* fails, and the parent's total grows by exactly that size.  Every
\* inaccessible node is such a node, and file nodes are accessible.
C7_InaccessibleDirIsPartial == [] C7_Nodes /\ [][C7_Step]_vars

\* an unreadable directory enumerated after a file, inside a directory that
\* has ended its loop
C7_Witness ==
    \E D \in ProducedDirs :
        /\ D.accessible
        /\ \E c, e \in Children(D) :
              /\ ~c.accessible
              /\ ~e.children.some
              /\ e.path[Len(e.path)] < c.path[Len(c.path)]
              /\ e.size # c.size
        /\ D.size = fs[D.path].len + SumSizes(D.children.v)

-----------------------------------------------------------------------------
(* C9 *)

\* C9: a node reached through a symbolic link (its path or a directory above
\* it is one) has kind Symlink whatever its type; any other node has the kind
\* of its own type on disk.
C9_SymlinkIsSticky ==
    \A n \in Produced :
        n.file_type = (IF CrossedSymlink(n.path) THEN "Symlink"
                       ELSE IF fs[n.path].kind = "file" THEN "File" ELSE "Dir")

\* a plain file and a plain directory beneath a linked directory, both Symlink
C9_Witness ==
    \E D \in ProducedDirs :
        /\ fs[D.path].symlink
        /\ D.file_type = "Symlink"
        /\ \E c \in Children(D) :
              ~fs[c.path].symlink /\ ~c.children.some /\ c.file_type = "Symlink"
        /\ \E c \in Children(D) :
              ~fs[c.path].symlink /\ c.children.some /\ c.file_type = "Symlink"

-----------------------------------------------------------------------------
(* C5, C10: the renderer *)

RECURSIVE PrintSkipFrom(_, _, _, _, _, _)
PrintSkipFrom(path_info, i, humanize, byte_type, show_ts, md) ==
    IF i > Len(path_info) THEN <<>>
    ELSE LET info == path_info[i] IN
         (IF md.some /\ md.v < info.depth THEN <<>>
          ELSE <<to_string(info, humanize, byte_type, show_ts)>>
               \o (IF info.children.some
                   THEN PrintSkipFrom(info.children.v, 1, humanize, byte_type, show_ts, md)
                   ELSE <<>>))
         \o PrintSkipFrom(path_info, i + 1, humanize, byte_type, show_ts, md)

\* C10: print_results, which leaves the current level at the first over-depth
\* node, emits the lines a renderer that only skips that node would emit,
\* whatever tree walk produced; the children of a node all have its depth + 1.
C10_ReturnEqualsSkip ==
    /\ \A D \in ProducedDirs : \A c \in Children(D) : c.depth = D.depth + 1
    /\ pc = "printed" =>
          out = PrintSkipFrom(all_file_info, 1, cli_humanize,
                              IF cli_si THEN "Decimal" ELSE "Binary", cli_time, max_depth)

\* the first child directory's child is over depth and is left by `return`;
\* the directory's sibling is still printed
C10_Witness ==
    /\ pc = "printed"
    /\ max_depth = Some(2)
    /\ Len(out) = 3
    /\ Len(out[2].path) = 1
    /\ Len(out[3].path) = 1
    /\ \E n \in NodesOf(all_file_info) :
          n.depth = 3 /\ SubSeq(n.path, 1, 1) = out[2].path

-----------------------------------------------------------------------------
(* C8: the formatter *)

\* the least k with size <= base^(k + 1)
LeastUnit(d) == CHOOSE k \in 0..NumDigits : ~ExceedsDiv(d, k) /\ \A j \in 0..(k - 1) : ExceedsDiv(d, j)

\* the count is the unit base itself, or one more
IsBase(d, base) == d = [i \in 1..NumDigits |-> IF i = 2 THEN 1 ELSE 0]
IsBasePlusOne(d, base) == d = [i \in 1..NumDigits |-> IF i \in {1, 2} THEN 1 ELSE 0]

\* C8: for every u64 count and both unit bases format_size ends with a prefix
\* among none, K/k, M, G, T: the least k with size <= base^(k + 1), capped at
\* T; the base itself stays unprefixed and base + 1 takes K/k.
C8_UnitIndexCappedAtT ==
    pc = "fmtdone" =>
        LET k == LeastUnit(fmt_in.d)
            base == Div(fmt_in.byte_type)
        IN  /\ ~fmt_out.panic
            /\ fmt_out.idx = (IF k > 4 THEN 4 ELSE k)
            /\ fmt_out.prefix = Prefixes(fmt_in.byte_type)[fmt_out.idx + 1]
            /\ IsBase(fmt_in.d, base) => fmt_out.idx = 0
            /\ IsBasePlusOne(fmt_in.d, base) => fmt_out.idx = 1
====
